---- MODULE Spec2Model ----
(***************************************************************************)
(* csv2pq: CSV[.gz] to Parquet converter.                                  *)
(*                                                                         *)
(* The module models                                                       *)
(*   - consolidate_types      (src/src/main.rs 70-137)                     *)
(*   - apply_schema_overrides (src/src/main.rs 140-171)                    *)
(*   - RewindableReader       (src/src/rewindable_reader.rs)               *)
(*   - TempFile               (src/src/tempfile.rs)                        *)
(*   - process / main         (src/src/main.rs 174-285)                    *)
(*                                                                         *)
(* Specifications:                                                         *)
(*   Spec            a whole run of main over a list of input files        *)
(*   SpecConsolidate consolidate_types applied to bounded directive lists  *)
(*   SpecSchema      apply_schema_overrides applied to bounded schemas     *)
(*   SpecReader      open / read / rewind on a RewindableReader            *)
(***************************************************************************)
EXTENDS Integers, Sequences, FiniteSets, TLC

VARIABLES
    cargs,      \* consolidate_types: the four directive lists (Args.i32 .. Args.f64)
    cin,        \* the directive lists as they were when consolidate_types was called
    cres,       \* consolidate_types: its result, or NoResult before the call
    sargs,      \* apply_schema_overrides: schema, overrides and the two defaults
    sres,       \* apply_schema_overrides: the schema after the call
    rfile,      \* RewindableReader: the file opened, [name, data]
    rdr,        \* RewindableReader: the reader (variant, handle offset, decoder)
    rgot,       \* the bytes read since open or since the last rewind
    rphase,     \* "first" before rewind() was called, "rewound" after
    rN,         \* how many bytes had been read when rewind() was called
    rend,       \* "no", or how the last read ended the stream: "eof", "err"
    filenames,  \* main: the input paths, in the order given
    flags,      \* main: Args.print_schema and Args.rm
    margs,      \* main: the four directive lists of the command line
    cons,       \* main: what consolidate_types returned
    fs,         \* the directory: what is at each path
    idx,        \* main: the index in filenames of the file being processed
    pc,         \* the place in main / process / flush_and_rename
    reader,     \* process: the RewindableReader variant, "none" before open
    schema,     \* process: the schema (inferred, then rewritten)
    output,     \* process: the TempFile, [live, tmp_filename]
    left,       \* process: the row batches the reader has still to yield
    ret,        \* what process returns once the TempFile is dropped
    outcome,    \* per input file: "none", "Skip", "PrintOnly", "Commit", "Fail"
    exit,       \* main: "running", "ok" or "err"
    hist        \* history of the run, kept for the properties only

varsC == <<cargs, cin, cres>>

varsS == <<sargs, sres>>

varsR == <<rfile, rdr, rgot, rphase, rN, rend>>

varsM == <<filenames, flags, margs, cons, fs, idx, pc, reader, schema, output,
           left, ret, outcome, exit, hist>>

vars == <<varsC, varsS, varsR, varsM>>

-----------------------------------------------------------------------------
(* Bounds of the model *)

\* most directive entries over the four lists together
MaxEntries == 4

\* most fields of an inferred schema
MaxFields == 2

\* most runs in one member of a compressed file
MaxRuns == 2

\* most bytes one read() call asks for
MaxRead == 2

\* how many bytes of the file the decoder's buffered reader holds at most
BufCap == 2

\* most input files of one run
MaxFiles == 2

\* most row batches of one input file
MaxBatches == 2

\* most steps of other processes during one run
MaxExt == 2

\* most runs of the program over the same list
MaxLaunches == 2

-----------------------------------------------------------------------------
(* consolidate_types, src/src/main.rs 70-137 *)

\* real column names used in directive lists
ColNames == {"a", "b"}

\* main.rs 85-86: the two wildcard spellings
all1 == "*"

all2 == "__all__"

\* what one entry of a directive list may be
Entries == ColNames \cup {all1, all2}

\* the four lists, in the order the code scans them
ListNames == <<"i32", "i64", "f32", "f64">>

\* main.rs 29
DEFAULT_INT_TYPE == "Int64"

\* main.rs 32
DEFAULT_FLOAT_TYPE == "Float32"

\* HashMap::new()
EmptyMap == [x \in {} |-> "Int32"]

\* HashMap::insert: the map after the insertion (a present key is overwritten)
MapInsert(m, k, v) == [x \in (DOMAIN m) \cup {k} |-> IF x = k THEN v ELSE m[x]]

\* Vec::contains
Contains(cols, c) == \E i \in 1..Len(cols) : cols[i] = c

\* Option<Vec<String>>: clap gives None for an absent option and at least one
\* value for a present one, so None is the empty list here
IsNone(cols) == cols = <<>>

\* main.rs 103, 110, 119, 128: c == "*" || c == "__all__"
IsWildcardMutStarOnly(c) == c = "*"

IsWildcard(c) == c = "*" \/ c = "__all__"

\* main.rs 87-88, 94-95: cols.contains(&all1) || cols.contains(&all2)
HasWildcardMutStarOnly(cols) == Contains(cols, all1)

HasWildcard(cols) == Contains(cols, all1) \/ Contains(cols, all2)

\* the state of the scan: the override map, the two defaults, the error if any
ScanStart ==
    [ok |-> TRUE, err |-> "none", col |-> "none", overrides |-> EmptyMap,
     default_int_type |-> DEFAULT_INT_TYPE,
     default_float_type |-> DEFAULT_FLOAT_TYPE]

ErrResult(err, col) ==
    [ok |-> FALSE, err |-> err, col |-> col, overrides |-> EmptyMap,
     default_int_type |-> DEFAULT_INT_TYPE,
     default_float_type |-> DEFAULT_FLOAT_TYPE]

\* the default a wildcard of a list of type ty sets
SetDefault(st, ty) ==
    IF ty \in {"Int32", "Int64"}
    THEN [st EXCEPT !.default_int_type = ty]
    ELSE [st EXCEPT !.default_float_type = ty]

\* main.rs 102-108: the i32 loop inserts unconditionally
RECURSIVE ScanI32(_, _, _)
ScanI32(cols, i, st) ==
    IF i > Len(cols) THEN st
    ELSE IF IsWildcard(cols[i])
         THEN ScanI32(cols, i + 1, SetDefault(st, "Int32"))
         ELSE ScanI32(cols, i + 1,
                      [st EXCEPT !.overrides = MapInsert(@, cols[i], "Int32")])

\* a strict loop that forgets the collision test (a plausible slip)
RECURSIVE ScanStrictMutNoCheck(_, _, _, _)
ScanStrictMutNoCheck(cols, i, ty, st) ==
    IF i > Len(cols) THEN st
    ELSE IF IsWildcard(cols[i])
         THEN ScanStrictMutNoCheck(cols, i + 1, ty, SetDefault(st, ty))
         ELSE ScanStrictMutNoCheck(cols, i + 1, ty,
                      [st EXCEPT !.overrides = MapInsert(@, cols[i], ty)])

\* a strict loop that accepts a name that already has the same type
RECURSIVE ScanStrictMutSameTypeOk(_, _, _, _)
ScanStrictMutSameTypeOk(cols, i, ty, st) ==
    IF ~st.ok \/ i > Len(cols) THEN st
    ELSE IF IsWildcard(cols[i])
         THEN ScanStrictMutSameTypeOk(cols, i + 1, ty, SetDefault(st, ty))
         ELSE IF cols[i] \in DOMAIN st.overrides /\ st.overrides[cols[i]] # ty
              THEN ErrResult("dup", cols[i])
              ELSE ScanStrictMutSameTypeOk(cols, i + 1, ty,
                      [st EXCEPT !.overrides = MapInsert(@, cols[i], ty)])

\* main.rs 109-135: the i64, f32 and f64 loops fail when insert returns Some
RECURSIVE ScanStrict(_, _, _, _)
ScanStrict(cols, i, ty, st) ==
    IF ~st.ok \/ i > Len(cols) THEN st
    ELSE IF IsWildcard(cols[i])
         THEN ScanStrict(cols, i + 1, ty, SetDefault(st, ty))
         ELSE IF cols[i] \in DOMAIN st.overrides
              THEN ErrResult("dup", cols[i])
              ELSE ScanStrict(cols, i + 1, ty,
                      [st EXCEPT !.overrides = MapInsert(@, cols[i], ty)])

\* consolidate_types whose f32 loop inserts the f64 loop's type (a copy-paste slip)
consolidate_typesMutF32(a) ==
    IF IsNone(a.i32) /\ IsNone(a.i64) /\ IsNone(a.f32) /\ IsNone(a.f64)
    THEN ScanStart
    ELSE IF HasWildcard(a.i32) /\ HasWildcard(a.i64)
    THEN ErrResult("int_default", "none")
    ELSE IF HasWildcard(a.f32) /\ HasWildcard(a.f64)
    THEN ErrResult("float_default", "none")
    ELSE LET s1 == ScanI32(a.i32, 1, ScanStart)
             s2 == ScanStrict(a.i64, 1, "Int64", s1)
             s3 == ScanStrict(a.f32, 1, "Float64", s2)
             s4 == ScanStrict(a.f64, 1, "Float64", s3)
         IN s4

\* main.rs 70-137
consolidate_types(a) ==
    IF IsNone(a.i32) /\ IsNone(a.i64) /\ IsNone(a.f32) /\ IsNone(a.f64)
    THEN ScanStart
    ELSE IF HasWildcard(a.i32) /\ HasWildcard(a.i64)
    THEN ErrResult("int_default", "none")
    ELSE IF HasWildcard(a.f32) /\ HasWildcard(a.f64)
    THEN ErrResult("float_default", "none")
    ELSE LET s1 == ScanI32(a.i32, 1, ScanStart)
             s2 == ScanStrict(a.i64, 1, "Int64", s1)
             s3 == ScanStrict(a.f32, 1, "Float32", s2)
             s4 == ScanStrict(a.f64, 1, "Float64", s3)
         IN s4

\* no directive at all
NoArgs == [i32 |-> <<>>, i64 |-> <<>>, f32 |-> <<>>, f64 |-> <<>>]

\* every choice of the four lists holding at most n entries together
RECURSIVE ArgsUpTo(_)
ArgsUpTo(n) ==
    IF n = 0 THEN {NoArgs}
    ELSE LET prev == ArgsUpTo(n - 1)
         IN prev \cup {[t EXCEPT ![ListNames[k]] = Append(@, e)] :
                          t \in prev, k \in 1..4, e \in Entries}

ArgSpace == ArgsUpTo(MaxEntries)

NoResult == ErrResult("pending", "none")

InitC ==
    /\ cargs \in ArgSpace
    /\ cin = cargs
    /\ cres = NoResult

IdleC ==
    /\ cargs = NoArgs
    /\ cin = NoArgs
    /\ cres = NoResult

\* main.rs 80-83: Option::take leaves None in the four lists of Args
Taken(args) == NoArgs

\* main.rs 274: the call of consolidate_types, which takes the lists out of
\* its argument
Consolidate ==
    /\ cres = NoResult
    /\ cres' = consolidate_types(cargs)
    /\ cargs' = Taken(cargs)
    /\ UNCHANGED cin

-----------------------------------------------------------------------------
(* apply_schema_overrides, src/src/main.rs 140-171 *)

\* the types a directive can ask for
OverrideTypes == {"Int32", "Int64", "Float32", "Float64"}

\* the types schema inference gives a column here: the two generic numeric
\* types and one type that is neither
InferredTypes == {"Int64", "Float64", "Utf8"}

\* arrow_schema::Field
FieldSpace == [name : ColNames, data_type : InferredTypes, nullable : BOOLEAN]

\* main.rs 149-166 with the match on the inferred type placed before the
\* lookup in overrides (the override loses against the default)
NewFieldMutDefaultFirst(field, overrides, default_int_type, default_float_type) ==
    IF field.data_type = "Int64"
    THEN [field EXCEPT !.data_type = default_int_type]
    ELSE IF field.data_type = "Float64"
    THEN [field EXCEPT !.data_type = default_float_type]
    ELSE IF field.name \in DOMAIN overrides
    THEN [field EXCEPT !.data_type = overrides[field.name]]
    ELSE field

\* main.rs 148-167: the field pushed to new_fields for one field of the schema
NewField(field, overrides, default_int_type, default_float_type) ==
    IF field.name \in DOMAIN overrides
    THEN [name |-> field.name, data_type |-> overrides[field.name],
          nullable |-> field.nullable]
    ELSE IF field.data_type = "Int64"
    THEN [name |-> field.name, data_type |-> default_int_type,
          nullable |-> field.nullable]
    ELSE IF field.data_type = "Float64"
    THEN [name |-> field.name, data_type |-> default_float_type,
          nullable |-> field.nullable]
    ELSE [name |-> field.name, data_type |-> field.data_type,
          nullable |-> field.nullable]

\* main.rs 140-171: new_fields after the loop, in the order pushed
RECURSIVE PushFields(_, _, _, _, _, _)
PushFields(fields, i, new_fields, overrides, default_int_type, default_float_type) ==
    IF i > Len(fields) THEN new_fields
    ELSE PushFields(fields, i + 1,
            Append(new_fields,
                   NewField(fields[i], overrides, default_int_type, default_float_type)),
            overrides, default_int_type, default_float_type)

apply_schema_overrides(fields, overrides, default_int_type, default_float_type) ==
    PushFields(fields, 1, <<>>, overrides, default_int_type, default_float_type)

\* every schema of at most n fields
RECURSIVE SchemasUpTo(_)
SchemasUpTo(n) ==
    IF n = 0 THEN {<<>>}
    ELSE LET prev == SchemasUpTo(n - 1)
         IN prev \cup {Append(f, x) : f \in prev, x \in FieldSpace}

\* every override map over the column names
OverrideSpace ==
    UNION {[K -> OverrideTypes] : K \in SUBSET ColNames}

SchemaArgSpace ==
    [fields : SchemasUpTo(MaxFields), overrides : OverrideSpace,
     default_int_type : {"Int32", "Int64"},
     default_float_type : {"Float32", "Float64"}]

NoSchemaArgs ==
    [fields |-> <<>>, overrides |-> EmptyMap,
     default_int_type |-> DEFAULT_INT_TYPE,
     default_float_type |-> DEFAULT_FLOAT_TYPE]

\* the schema before the call returned
SchemaPending == [done |-> FALSE, fields |-> <<>>]

InitS ==
    /\ sargs \in SchemaArgSpace
    /\ sres = SchemaPending

IdleS ==
    /\ sargs = NoSchemaArgs
    /\ sres = SchemaPending

\* main.rs 194-199: the call of apply_schema_overrides
ApplyOverrides ==
    /\ ~sres.done
    /\ sres' = [done |-> TRUE,
                fields |-> apply_schema_overrides(sargs.fields, sargs.overrides,
                              sargs.default_int_type, sargs.default_float_type)]
    /\ UNCHANGED sargs

-----------------------------------------------------------------------------
(* RewindableReader, src/src/rewindable_reader.rs *)

\* A file name is the sequence of its parts, as "x" ".csv" ".gz"; a suffix test
\* of the code is a test of the last parts.
EndsWith(name, suffix) ==
    /\ Len(name) >= Len(suffix)
    /\ SubSeq(name, Len(name) - Len(suffix) + 1, Len(name)) = suffix

\* A compressed file is a sequence of members, each a header "H", runs and a
\* trailer "T"; a run stands for the bytes it decodes to.
RunTokens == {"2x", "1y"}

RunOf(t) == IF t = "2x" THEN <<"x", "x">> ELSE <<"y">>

Min(a, b) == IF a < b THEN a ELSE b

\* rewindable_reader.rs 19-27: open
Open(name) ==
    [variant |-> IF EndsWith(name, <<".gz">>) THEN "Compressed" ELSE "Plain",
     pos |-> 0, buf |-> <<>>, inMember |-> FALSE, started |-> FALSE,
     pending |-> <<>>, err |-> FALSE]

\* rewindable_reader.rs 48: File::read of at most n bytes
PlainRead(r, n, data) ==
    LET k == Min(n, Len(data) - r.pos)
    IN [r |-> [r EXCEPT !.pos = @ + k],
        out |-> SubSeq(data, r.pos + 1, r.pos + k)]

\* rewindable_reader.rs 49: the decoder reads the file through a buffer of
\* BufCap bytes, which it refills from the handle only when it is empty; the
\* handle's offset so runs ahead of what was decoded
GzFill(r, data) ==
    IF r.buf = <<>> /\ r.pos < Len(data)
    THEN LET k == Min(BufCap, Len(data) - r.pos)
         IN [r EXCEPT !.buf = SubSeq(data, r.pos + 1, r.pos + k), !.pos = @ + k]
    ELSE r

\* rewindable_reader.rs 49: what the decoder makes of the bytes it holds,
\* without going to the file: it delivers until the caller's n bytes are out
\* ("full"), the buffer is used up ("input"), the member ends with bytes out
\* ("member") or the stream is malformed ("bad")
RECURSIVE GzDecode(_, _, _)
GzDecode(r, n, out) ==
    IF n = 0 THEN [r |-> r, out |-> out, stop |-> "full"]
    ELSE IF r.pending # <<>>
    THEN GzDecode([r EXCEPT !.pending = Tail(@)], n - 1,
                  Append(out, Head(r.pending)))
    ELSE IF r.buf = <<>> THEN [r |-> r, out |-> out, stop |-> "input"]
    ELSE LET t == Head(r.buf)
             rest == [r EXCEPT !.buf = Tail(@)]
         IN IF t = "H" /\ ~r.inMember
            THEN GzDecode([rest EXCEPT !.inMember = TRUE, !.started = TRUE],
                          n, out)
            ELSE IF t = "T" /\ r.inMember
            THEN IF out # <<>>
                 THEN [r |-> [rest EXCEPT !.inMember = FALSE], out |-> out,
                       stop |-> "member"]
                 ELSE GzDecode([rest EXCEPT !.inMember = FALSE], n, out)
            ELSE IF t \in RunTokens /\ r.inMember
            THEN GzDecode([rest EXCEPT !.pending = RunOf(t)], n, out)
            ELSE [r |-> r, out |-> out, stop |-> "bad"]

\* rewindable_reader.rs 49: a read that starts with decoded bytes held by
\* the decoder and an empty buffer returns the held bytes, at most n, and
\* decodes nothing of the buffer it has just filled
GzHeld(r, n) ==
    LET k == Min(n, Len(r.pending))
    IN [r |-> [r EXCEPT !.pending = SubSeq(@, k + 1, Len(@))],
        out |-> SubSeq(r.pending, 1, k)]

\* rewindable_reader.rs 49: MultiGzDecoder::read of at most n bytes. Each
\* round fills the buffer if it is empty and decodes what it holds; a round
\* that delivered bytes ends the read, also with fewer than n bytes when the
\* buffer is used up, and a round that delivered nothing is followed by
\* another. Bytes the decoder held when the buffer was empty are returned
\* alone, after the refill. A read that has bytes of a member returns at the end of that
\* member; the next read goes on with the next member. A malformed or
\* truncated stream is an error, reported by the read that has nothing to
\* deliver, and so is a file without a first member.
RECURSIVE GzRead(_, _, _, _)
GzRead(r, n, data, out) ==
    IF r.err THEN [r |-> r, out |-> out]
    ELSE IF r.pending # <<>> /\ r.buf = <<>>
    THEN GzHeld(GzFill(r, data), n)
    ELSE LET f == GzFill(r, data)
             d == GzDecode(f, n, out)
         IN IF d.out # <<>> \/ d.stop = "full"
            THEN [r |-> d.r, out |-> d.out]
            ELSE IF d.stop = "bad"
            THEN [r |-> [d.r EXCEPT !.err = TRUE], out |-> d.out]
            ELSE IF f.buf = <<>>
            THEN IF d.r.inMember \/ ~d.r.started
                 THEN [r |-> [d.r EXCEPT !.err = TRUE], out |-> d.out]
                 ELSE [r |-> d.r, out |-> d.out]
            ELSE GzRead(d.r, n, data, d.out)

\* rewindable_reader.rs 45-52: impl Read
Read(r, n, data) ==
    IF r.variant = "Plain" THEN PlainRead(r, n, data)
    ELSE GzRead(r, n, data, <<>>)

\* rewind() that seeks the handle and keeps the decoder it was read through
RewindMutKeepDecoder(r) == [r EXCEPT !.pos = 0]

\* rewindable_reader.rs 30-42: rewind
Rewind(r) ==
    IF r.variant = "Plain"
    THEN [r EXCEPT !.pos = 0]
    ELSE [variant |-> "Compressed", pos |-> 0, buf |-> <<>>,
          inMember |-> FALSE, started |-> FALSE, pending |-> <<>>,
          err |-> FALSE]

\* the bodies of a member: at most n runs
RECURSIVE RunsUpTo(_)
RunsUpTo(n) ==
    IF n = 0 THEN {<<>>}
    ELSE LET prev == RunsUpTo(n - 1)
         IN prev \cup {Append(b, t) : b \in prev, t \in RunTokens}

Members == {<<"H">> \o b \o <<"T">> : b \in RunsUpTo(MaxRuns)}

\* files of one or two members, and what is left of them when truncated
WholeFiles == Members \cup {m1 \o m2 : m1, m2 \in Members}

FileData == UNION {{SubSeq(f, 1, k) : k \in 0..Len(f)} : f \in WholeFiles}

\* the same bytes under a plain and under a compressed name
FileSpace == [name : {<<"x", ".csv">>, <<"x", ".csv", ".gz">>}, data : FileData]

InitR ==
    /\ rfile \in FileSpace
    /\ rdr = Open(rfile.name)
    /\ rgot = <<>>
    /\ rphase = "first"
    /\ rN = 0
    /\ rend = "no"

IdleR ==
    /\ rfile = [name |-> <<"x", ".csv">>, data |-> <<>>]
    /\ rdr = Open(rfile.name)
    /\ rgot = <<>>
    /\ rphase = "first"
    /\ rN = 0
    /\ rend = "no"

\* one read() call with a buffer of n bytes
ReadSome ==
    /\ rend = "no"
    /\ \E n \in 1..MaxRead :
          LET res == Read(rdr, n, rfile.data)
          IN /\ rdr' = res.r
             /\ rgot' = rgot \o res.out
             /\ rend' = IF res.r.err THEN "err"
                        ELSE IF res.out = <<>> THEN "eof" ELSE "no"
    /\ UNCHANGED <<rfile, rphase, rN>>

\* the call of rewind(), succeeding
DoRewind ==
    /\ rphase = "first"
    /\ rdr' = Rewind(rdr)
    /\ rN' = Len(rgot)
    /\ rgot' = <<>>
    /\ rphase' = "rewound"
    /\ rend' = "no"
    /\ UNCHANGED rfile

-----------------------------------------------------------------------------
(* File names, src/src/main.rs 207-225 *)

\* the input paths of a run: a csv, a gzipped csv, a csv whose name starts
\* with the temp marker, a file that is no csv, and a csv whose name is not
\* valid UTF-8 (the part "<ff>" stands for such bytes)
InputNames ==
    {<<"x", ".csv">>, <<"x", ".csv", ".gz">>, <<".tmp.", "x", ".csv">>,
     <<"x", ".txt">>, <<"<ff>", ".csv">>}

\* Path::to_str returns Some
IsUtf8(name) == \A i \in 1..Len(name) : name[i] # "<ff>"

\* main.rs 210-214: strip_suffix(".csv"), else strip_suffix(".csv.gz")
HasCsvSuffix(name) ==
    EndsWith(name, <<".csv">>) \/ EndsWith(name, <<".csv", ".gz">>)

Stem(name) ==
    IF EndsWith(name, <<".csv">>) THEN SubSeq(name, 1, Len(name) - 1)
    ELSE SubSeq(name, 1, Len(name) - 2)

\* main.rs 221, 224: new_filename
FinalName(name) == Stem(name) \o <<".parquet">>

\* main.rs 222-225: tmp_filename
TempName(name) == <<".tmp.">> \o FinalName(name)

\* the inputs process computes output names for: those that get as far as
\* main.rs 207, which a name that is not UTF-8 never does
CsvNames == {n \in InputNames : HasCsvSuffix(n) /\ IsUtf8(n)}

OutputNames == {FinalName(n) : n \in CsvNames} \cup {TempName(n) : n \in CsvNames}

Paths == InputNames \cup OutputNames

-----------------------------------------------------------------------------
(* The directory and TempFile, src/src/tempfile.rs *)

\* nothing at a path
NoFile ==
    [kind |-> "none", by |-> "none", via |-> "none", rows |-> 0, want |-> 0,
     closed |-> FALSE, synced |-> FALSE]

\* a regular file, and a directory, that were there before the run
PreFile == [NoFile EXCEPT !.kind = "file", !.by = "pre", !.via = "pre"]

PreDir == [NoFile EXCEPT !.kind = "dir", !.by = "pre", !.via = "pre"]

\* tempfile.rs 16: the empty file File::create_new makes; want is the number
\* of row batches the input holds
NewFile(n) ==
    [kind |-> "file", by |-> "prog", via |-> "create", rows |-> 0, want |-> n,
     closed |-> FALSE, synced |-> FALSE]

\* Path::exists, Path::is_file
Exists(p) == fs[p].kind # "none"

IsFile(p) == fs[p].kind = "file"

\* fs::remove_file on a path: the entry goes; on a missing path it fails
\* and changes nothing
RemoveFile(dir, p) == [dir EXCEPT ![p] = NoFile]

\* fs::rename: the file at from is at to afterwards (replacing what was there)
Renamed(dir, from, to) ==
    [dir EXCEPT ![to] = [dir[from] EXCEPT !.via = "rename"], ![from] = NoFile]

NoOutput == [live |-> FALSE, tmp_filename |-> <<>>]

\* a file some other process put at a path while the program runs
ExtFile == [NoFile EXCEPT !.kind = "file", !.by = "ext", !.via = "ext"]

\* the path p still names the file the program made with create_new: the
\* handle of a TempFile follows the file, not the path, so once p was removed
\* or taken by another file, writes and sync_all no longer show at p
Own(p) == fs[p].by = "prog" /\ fs[p].via = "create"

-----------------------------------------------------------------------------
(* main and process, src/src/main.rs 174-285 *)

cur == filenames[idx]

\* the directives of a run: consistent ones and contradictory ones
ValidArgs == [i32 |-> <<"a">>, i64 |-> <<>>, f32 |-> <<>>, f64 |-> <<"*">>]

ConflictArgs == [i32 |-> <<"*">>, i64 |-> <<"__all__">>, f32 |-> <<>>, f64 |-> <<>>]

\* what infer_schema returns for an input: every field nullable
InferredFields ==
    <<[name |-> "a", data_type |-> "Int64", nullable |-> TRUE],
      [name |-> "b", data_type |-> "Float64", nullable |-> TRUE]>>

RECURSIVE ListsUpTo(_)
ListsUpTo(n) ==
    IF n = 0 THEN {<<>>}
    ELSE LET prev == ListsUpTo(n - 1)
         IN prev \cup {Append(l, x) : l \in prev, x \in InputNames}

Listed(l) == {l[i] : i \in 1..Len(l)}

\* the directories a run over the list l may start in: a listed input is a
\* file, a directory or missing; an output path is free or taken
StartDirs(l) ==
    {d \in [Paths -> {NoFile, PreFile, PreDir}] :
        /\ \A p \in InputNames \ Listed(l) : d[p] = NoFile
        /\ \A p \in OutputNames : d[p] # PreDir}

NoHist ==
    [inferred |-> {}, rewritten |-> {}, tmpCreated |-> {}, failAt |-> "none",
     rowsAtFail |-> 0, cleanups |-> {}, finalWrites |-> {}, rmInputs |-> {},
     finalAtStart |-> {}, fsAtStart |-> [p \in Paths |-> NoFile],
     opened |-> {}, rmFailed |-> {}, overwrote |-> {},
     foreign |-> {}, ext |-> 0, run |-> 1, prev |-> <<>>,
     fsAtLaunch |-> [p \in Paths |-> NoFile], argv |-> NoArgs]

InitM ==
    /\ filenames \in ListsUpTo(MaxFiles) \ {<<>>}
    /\ flags \in [print_schema : BOOLEAN, rm : BOOLEAN]
    /\ margs \in {ValidArgs, ConflictArgs}
    /\ cons = NoResult
    /\ fs \in StartDirs(filenames)
    /\ idx = 0
    /\ pc = "start"
    /\ reader = "none"
    /\ schema = SchemaPending
    /\ output = NoOutput
    /\ left = 0
    /\ ret = "none"
    /\ outcome = [i \in 1..Len(filenames) |-> "none"]
    /\ exit = "running"
    /\ hist = [NoHist EXCEPT !.fsAtLaunch = fs, !.argv = margs]

IdleM ==
    /\ filenames = <<>>
    /\ flags = [print_schema |-> FALSE, rm |-> FALSE]
    /\ margs = NoArgs
    /\ cons = NoResult
    /\ fs = [p \in Paths |-> NoFile]
    /\ idx = 0
    /\ pc = "start"
    /\ reader = "none"
    /\ schema = SchemaPending
    /\ output = NoOutput
    /\ left = 0
    /\ ret = "none"
    /\ outcome = <<>>
    /\ exit = "running"
    /\ hist = NoHist

\* a loop that logs the error of one file and goes on with the next
ReturnMutContinue(o) ==
    /\ outcome' = [outcome EXCEPT ![idx] = o]
    /\ pc' = "loop"
    /\ exit' = exit
    /\ reader' = "none"
    /\ left' = 0

\* process returns o for the current file: Ok(()) lets main go on with the
\* next file, Err ends the run (main.rs 276-283)
Return(o) ==
    /\ outcome' = [outcome EXCEPT ![idx] = o]
    /\ pc' = IF o = "Fail" THEN "done" ELSE "loop"
    /\ exit' = IF o = "Fail" THEN "err" ELSE exit
    /\ reader' = "none"
    /\ left' = 0

\* a panic inside process (a failed println! or eprintln!, an unwrap of
\* None): the stack unwinds out of main, the program ends with status 101 and
\* no further file is processed; o is what the file had come to when the panic
\* struck: Skip when the message of a skip was being printed, Commit when the
\* failed removal of a committed input was being logged, Fail when the file
\* had reached no result yet
Abort(o) ==
    /\ outcome' = [outcome EXCEPT ![idx] = o]
    /\ pc' = "done"
    /\ exit' = "panic"
    /\ reader' = "none"
    /\ left' = 0

\* process is left after the TempFile was dropped: by the ? that returned
\* Err, or by the panic that is unwinding
LeaveAfterDrop ==
    IF hist.failAt = "tty" THEN Abort("Fail") ELSE Return("Fail")

\* a main that drops the result of consolidate_types and enters the loop
MainConsolidateMutIgnoreErr ==
    /\ pc = "start"
    /\ cons' = consolidate_types(margs)
    /\ margs' = Taken(margs)
    /\ pc' = "loop"
    /\ UNCHANGED <<filenames, flags, fs, idx, reader, schema, output,
                   left, ret, outcome, exit, hist>>

\* main.rs 271-274: consolidate_types, before the loop
MainConsolidate ==
    /\ pc = "start"
    /\ cons' = consolidate_types(margs)
    /\ margs' = Taken(margs)
    /\ pc' = IF cons'.ok THEN "loop" ELSE "done"
    /\ exit' = IF cons'.ok THEN exit ELSE "err"
    /\ UNCHANGED <<filenames, flags, fs, idx, reader, schema, output,
                   left, ret, outcome, hist>>

\* main.rs 275-284: the loop is over, Ok(())
MainEnd ==
    /\ pc = "loop"
    /\ idx = Len(filenames)
    /\ pc' = "done"
    /\ exit' = "ok"
    /\ UNCHANGED <<filenames, flags, margs, cons, fs, idx, reader, schema,
                   output, left, ret, outcome, hist>>

\* main.rs 275-276: process is called for the next file
MainCall ==
    /\ pc = "loop"
    /\ idx < Len(filenames)
    /\ idx' = idx + 1
    /\ pc' = "is_file"
    /\ schema' = SchemaPending
    /\ ret' = "none"
    /\ hist' = [hist EXCEPT
                  !.fsAtStart = fs,
                  !.finalAtStart =
                      IF filenames[idx + 1] \in CsvNames
                         /\ Exists(FinalName(filenames[idx + 1]))
                      THEN @ \cup {idx + 1} ELSE @]
    /\ UNCHANGED <<filenames, flags, margs, cons, fs, reader, output, left,
                   outcome, exit>>

\* main.rs 181-188: not a regular file
PNotFile ==
    /\ pc = "is_file"
    /\ IsUtf8(cur)
    /\ ~IsFile(cur)
    /\ Return("Skip")
    /\ UNCHANGED <<filenames, flags, margs, cons, fs, idx, schema, output,
                   ret, hist>>

\* main.rs 183, 185: eprintln! cannot write to stderr and panics
PNotFilePanic ==
    /\ pc = "is_file"
    /\ IsUtf8(cur)
    /\ ~IsFile(cur)
    /\ hist' = [hist EXCEPT !.failAt = "stderr"]
    /\ Abort("Skip")
    /\ UNCHANGED <<filenames, flags, margs, cons, fs, idx, schema, output, ret>>

\* main.rs 183, 185, rewindable_reader.rs 20: filename.to_str().unwrap()
\* panics on a name that is not UTF-8, in the message of the skip when the
\* path is no regular file and in RewindableReader::open, before File::open,
\* when it is one
PNamePanic ==
    /\ pc = "is_file"
    /\ ~IsUtf8(cur)
    /\ hist' = [hist EXCEPT !.failAt = "utf8"]
    /\ Abort(IF IsFile(cur) THEN "Fail" ELSE "Skip")
    /\ UNCHANGED <<filenames, flags, margs, cons, fs, idx, schema, output, ret>>

\* main.rs 181, 190: RewindableReader::open succeeds
POpen ==
    /\ pc = "is_file"
    /\ IsUtf8(cur)
    /\ IsFile(cur)
    /\ reader' = Open(cur).variant
    /\ pc' = "infer"
    /\ hist' = [hist EXCEPT !.opened = @ \cup {idx}]
    /\ UNCHANGED <<filenames, flags, margs, cons, fs, idx, schema, output,
                   left, ret, outcome, exit>>

\* main.rs 190: RewindableReader::open fails
POpenFail ==
    /\ pc = "is_file"
    /\ IsUtf8(cur)
    /\ IsFile(cur)
    /\ Return("Fail")
    /\ hist' = [hist EXCEPT !.failAt = "open", !.opened = @ \cup {idx}]
    /\ UNCHANGED <<filenames, flags, margs, cons, fs, idx, schema, output, ret>>

\* main.rs 193: infer_schema succeeds
PInfer ==
    /\ pc = "infer"
    /\ schema' = [done |-> FALSE, fields |-> InferredFields]
    /\ pc' = "rewrite"
    /\ hist' = [hist EXCEPT !.inferred = @ \cup {idx}]
    /\ UNCHANGED <<filenames, flags, margs, cons, fs, idx, reader, output,
                   left, ret, outcome, exit>>

\* main.rs 193: infer_schema fails
PInferFail ==
    /\ pc = "infer"
    /\ Return("Fail")
    /\ hist' = [hist EXCEPT !.inferred = @ \cup {idx}, !.failAt = "infer"]
    /\ UNCHANGED <<filenames, flags, margs, cons, fs, idx, schema, output, ret>>

\* a print_schema branch that prints and does not return
PRewriteMutNoReturn ==
    /\ pc = "rewrite"
    /\ schema' = [done |-> TRUE,
                  fields |-> apply_schema_overrides(schema.fields, cons.overrides,
                                cons.default_int_type, cons.default_float_type)]
    /\ hist' = [hist EXCEPT !.rewritten = @ \cup {idx}]
    /\ pc' = "suffix"
    /\ UNCHANGED <<filenames, flags, margs, cons, fs, idx, reader, output,
                   left, ret, outcome, exit>>

\* main.rs 194-205: apply_schema_overrides, then print_schema returns
PRewrite ==
    /\ pc = "rewrite"
    /\ schema' = [done |-> TRUE,
                  fields |-> apply_schema_overrides(schema.fields, cons.overrides,
                                cons.default_int_type, cons.default_float_type)]
    /\ hist' = [hist EXCEPT !.rewritten = @ \cup {idx}]
    /\ IF flags.print_schema
       THEN Return("PrintOnly")
       ELSE /\ pc' = "suffix"
            /\ UNCHANGED <<reader, left, outcome, exit>>
    /\ UNCHANGED <<filenames, flags, margs, cons, fs, idx, output, ret>>

\* main.rs 201: serde_json::to_string_pretty fails and its ? returns Err
PPrintFail ==
    /\ pc = "rewrite"
    /\ flags.print_schema
    /\ schema' = [done |-> TRUE,
                  fields |-> apply_schema_overrides(schema.fields, cons.overrides,
                                cons.default_int_type, cons.default_float_type)]
    /\ hist' = [hist EXCEPT !.rewritten = @ \cup {idx}, !.failAt = "print"]
    /\ Return("Fail")
    /\ UNCHANGED <<filenames, flags, margs, cons, fs, idx, output, ret>>

\* main.rs 203: println! cannot write to stdout and panics; the program ends
\* there, process does not return
PPrintPanic ==
    /\ pc = "rewrite"
    /\ flags.print_schema
    /\ schema' = [done |-> TRUE,
                  fields |-> apply_schema_overrides(schema.fields, cons.overrides,
                                cons.default_int_type, cons.default_float_type)]
    /\ hist' = [hist EXCEPT !.rewritten = @ \cup {idx}, !.failAt = "stdout"]
    /\ Abort("Fail")
    /\ UNCHANGED <<filenames, flags, margs, cons, fs, idx, output, ret>>

\* main.rs 207-220: the name ends in neither .csv nor .csv.gz
PSuffixSkip ==
    /\ pc = "suffix"
    /\ ~HasCsvSuffix(cur)
    /\ Return("Skip")
    /\ UNCHANGED <<filenames, flags, margs, cons, fs, idx, schema, output,
                   ret, hist>>

\* main.rs 215: eprintln! cannot write to stderr and panics
PSuffixSkipPanic ==
    /\ pc = "suffix"
    /\ ~HasCsvSuffix(cur)
    /\ hist' = [hist EXCEPT !.failAt = "stderr"]
    /\ Abort("Skip")
    /\ UNCHANGED <<filenames, flags, margs, cons, fs, idx, schema, output, ret>>

\* main.rs 226-232: new_filename exists
PFinalExists ==
    /\ pc = "suffix"
    /\ HasCsvSuffix(cur)
    /\ Exists(FinalName(cur))
    /\ Return("Skip")
    /\ UNCHANGED <<filenames, flags, margs, cons, fs, idx, schema, output,
                   ret, hist>>

\* main.rs 227: eprintln! cannot write to stderr and panics
PFinalExistsPanic ==
    /\ pc = "suffix"
    /\ HasCsvSuffix(cur)
    /\ Exists(FinalName(cur))
    /\ hist' = [hist EXCEPT !.failAt = "stderr"]
    /\ Abort("Skip")
    /\ UNCHANGED <<filenames, flags, margs, cons, fs, idx, schema, output, ret>>

\* main.rs 226: new_filename.exists() is false; the test of the temp path
\* is a later call, and other processes may act in between
PFinalAbsent ==
    /\ pc = "suffix"
    /\ HasCsvSuffix(cur)
    /\ ~Exists(FinalName(cur))
    /\ pc' = "tmp"
    /\ UNCHANGED <<filenames, flags, margs, cons, fs, idx, reader, schema,
                   output, left, ret, outcome, exit, hist>>

\* main.rs 233-239: tmp_filename exists
PTmpExists ==
    /\ pc = "tmp"
    /\ Exists(TempName(cur))
    /\ Return("Skip")
    /\ UNCHANGED <<filenames, flags, margs, cons, fs, idx, schema, output,
                   ret, hist>>

\* main.rs 234: eprintln! cannot write to stderr and panics
PTmpExistsPanic ==
    /\ pc = "tmp"
    /\ Exists(TempName(cur))
    /\ hist' = [hist EXCEPT !.failAt = "stderr"]
    /\ Abort("Skip")
    /\ UNCHANGED <<filenames, flags, margs, cons, fs, idx, schema, output, ret>>

\* main.rs 233: tmp_filename.exists() is false
PChecked ==
    /\ pc = "tmp"
    /\ ~Exists(TempName(cur))
    /\ pc' = "create"
    /\ UNCHANGED <<filenames, flags, margs, cons, fs, idx, reader, schema,
                   output, left, ret, outcome, exit, hist>>

\* File::create in place of File::create_new: a file at the temp path is
\* opened and truncated
PCreateMutNonExclusive ==
    /\ pc = "create"
    /\ \E n \in 0..MaxBatches :
          /\ fs' = [fs EXCEPT ![TempName(cur)] = NewFile(n)]
          /\ left' = n
    /\ output' = [live |-> TRUE, tmp_filename |-> TempName(cur)]
    /\ pc' = "build"
    /\ hist' = [hist EXCEPT
                  !.tmpCreated = @ \cup {idx},
                  !.foreign = IF Exists(TempName(cur))
                              THEN @ \cup {[file |-> idx, how |-> "written"]}
                              ELSE @]
    /\ UNCHANGED <<filenames, flags, margs, cons, idx, reader, schema, ret,
                   outcome, exit>>

\* main.rs 240, tempfile.rs 15-18: File::create_new makes the temp file; the
\* input is found to hold n row batches
PCreate ==
    /\ pc = "create"
    /\ ~Exists(TempName(cur))
    /\ \E n \in 0..MaxBatches :
          /\ fs' = [fs EXCEPT ![TempName(cur)] = NewFile(n)]
          /\ left' = n
    /\ output' = [live |-> TRUE, tmp_filename |-> TempName(cur)]
    /\ pc' = "build"
    /\ hist' = [hist EXCEPT
                  !.tmpCreated = @ \cup {idx},
                  !.finalWrites = IF TempName(cur) = FinalName(cur)
                                  THEN @ \cup {idx} ELSE @]
    /\ UNCHANGED <<filenames, flags, margs, cons, idx, reader, schema, ret,
                   outcome, exit>>

\* main.rs 240: File::create_new fails (the path is taken, or an I/O error)
PCreateFail ==
    /\ pc = "create"
    /\ Return("Fail")
    /\ hist' = [hist EXCEPT !.failAt = "create"]
    /\ UNCHANGED <<filenames, flags, margs, cons, fs, idx, schema, output, ret>>

\* main.rs 241-243: stdin is a terminal and println! cannot write the file
\* name to stdout: it panics with the TempFile alive, which the unwinding drops
PTtyPanic ==
    /\ pc = "build"
    /\ ret' = "Fail"
    /\ pc' = "drop"
    /\ hist' = [hist EXCEPT !.failAt = "tty", !.rowsAtFail = 0]
    /\ UNCHANGED <<filenames, flags, margs, cons, fs, idx, reader, schema,
                   output, left, outcome, exit>>

\* main.rs 245-252: rewind, the csv reader and the ArrowWriter are built
PBuild ==
    /\ pc = "build"
    /\ pc' = "stream"
    /\ UNCHANGED <<filenames, flags, margs, cons, fs, idx, reader, schema,
                   output, left, ret, outcome, exit, hist>>

\* main.rs 253-254: the reader yields the next batch
PReadBatch ==
    /\ pc = "stream"
    /\ left > 0
    /\ pc' = "write"
    /\ UNCHANGED <<filenames, flags, margs, cons, fs, idx, reader, schema,
                   output, left, ret, outcome, exit, hist>>

\* main.rs 255: writer.write(&batch) succeeds: the batch is in the temp file
PWrite ==
    /\ pc = "write"
    /\ fs' = IF Own(output.tmp_filename)
             THEN [fs EXCEPT ![output.tmp_filename].rows = @ + 1] ELSE fs
    /\ left' = left - 1
    /\ pc' = "stream"
    /\ hist' = [hist EXCEPT
                  !.finalWrites = IF output.tmp_filename = FinalName(cur)
                                  THEN @ \cup {idx} ELSE @]
    /\ UNCHANGED <<filenames, flags, margs, cons, idx, reader, schema, output,
                   ret, outcome, exit>>

\* main.rs 253, 257: the reader is exhausted and writer.close() succeeds
PClose ==
    /\ pc = "stream"
    /\ left = 0
    /\ fs' = IF Own(output.tmp_filename)
             THEN [fs EXCEPT ![output.tmp_filename].closed = TRUE] ELSE fs
    /\ pc' = "sync"
    /\ UNCHANGED <<filenames, flags, margs, cons, idx, reader, schema, output,
                   left, ret, outcome, exit, hist>>

\* the places of process and flush_and_rename where an error leaves with ?
\* while the TempFile is alive
SinkFailPoints == {"build", "stream", "write", "sync", "rename"}

\* a write error that is dropped instead of returned: the loop goes on
PSinkFailMutSwallow ==
    /\ pc = "write"
    /\ left' = left - 1
    /\ pc' = "stream"
    /\ UNCHANGED <<filenames, flags, margs, cons, fs, idx, reader, schema,
                   output, ret, outcome, exit, hist>>

\* an error path on which the TempFile is leaked, so Drop never runs
PSinkFailMutLeak ==
    /\ pc \in SinkFailPoints
    /\ ret' = "Fail"
    /\ output' = [output EXCEPT !.live = FALSE]
    /\ hist' = [hist EXCEPT !.failAt = pc,
                            !.rowsAtFail = fs[output.tmp_filename].rows]
    /\ Return("Fail")
    /\ UNCHANGED <<filenames, flags, margs, cons, fs, idx, schema>>

\* main.rs 245-257, tempfile.rs 22-23: an error after the temp file was
\* created (rewind, reader or writer construction, a batch read, a batch
\* write, writer.close, sync_all, rename): the function returns Err and the
\* TempFile goes out of scope
PSinkFail ==
    /\ pc \in SinkFailPoints
    /\ ret' = "Fail"
    /\ pc' = "drop"
    /\ hist' = [hist EXCEPT !.failAt = pc,
                            !.rowsAtFail = fs[output.tmp_filename].rows]
    /\ UNCHANGED <<filenames, flags, margs, cons, fs, idx, reader, schema,
                   output, left, outcome, exit>>

\* tempfile.rs 22: sync_all succeeds
PSync ==
    /\ pc = "sync"
    /\ fs' = IF Own(output.tmp_filename)
             THEN [fs EXCEPT ![output.tmp_filename].synced = TRUE] ELSE fs
    /\ pc' = "rename"
    /\ UNCHANGED <<filenames, flags, margs, cons, idx, reader, schema, output,
                   left, ret, outcome, exit, hist>>

\* tempfile.rs 23: rename succeeds, which takes a file at the temp path and
\* replaces whatever is at the final path; self goes out of scope next
PRename ==
    /\ pc = "rename"
    /\ Exists(output.tmp_filename)
    /\ fs' = Renamed(fs, output.tmp_filename, FinalName(cur))
    /\ ret' = "Commit"
    /\ pc' = "drop"
    /\ hist' = [hist EXCEPT
                  !.overwrote = IF Exists(FinalName(cur))
                                THEN @ \cup {[file |-> idx,
                                              replaced |-> fs[FinalName(cur)].by]}
                                ELSE @,
                  !.foreign = IF ~Own(output.tmp_filename)
                              THEN @ \cup {[file |-> idx, how |-> "renamed"]}
                              ELSE @]
    /\ UNCHANGED <<filenames, flags, margs, cons, idx, reader, schema, output,
                   left, outcome, exit>>

\* a TempFile without the Drop impl: nothing removes the temp file
PDropMutNoRemove ==
    /\ pc = "drop"
    /\ output' = [output EXCEPT !.live = FALSE]
    /\ IF ret = "Fail"
       THEN LeaveAfterDrop
       ELSE /\ pc' = "rm"
            /\ UNCHANGED <<reader, left, outcome, exit>>
    /\ UNCHANGED <<filenames, flags, margs, cons, fs, idx, schema, ret, hist>>

\* tempfile.rs 37-41: Drop runs remove_file(tmp_filename), its result unused.
\* It runs when process leaves with an error and also at the end of
\* flush_and_rename, which takes self and does not forget it.
PDrop ==
    /\ pc = "drop"
    /\ fs' = IF Exists(output.tmp_filename)
             THEN RemoveFile(fs, output.tmp_filename) ELSE fs
    /\ output' = [output EXCEPT !.live = FALSE]
    /\ hist' = [hist EXCEPT
                  !.cleanups = @ \cup
                      {[file |-> idx, after |-> ret,
                        removed |-> Exists(output.tmp_filename),
                        kept |-> FALSE]},
                  !.foreign = IF Exists(output.tmp_filename)
                                 /\ ~Own(output.tmp_filename)
                              THEN @ \cup {[file |-> idx, how |-> "removed"]}
                              ELSE @]
    /\ IF ret = "Fail"
       THEN LeaveAfterDrop
       ELSE /\ pc' = "rm"
            /\ UNCHANGED <<reader, left, outcome, exit>>
    /\ UNCHANGED <<filenames, flags, margs, cons, idx, schema, ret>>

\* tempfile.rs 39: remove_file fails with the file still at the temp path;
\* Drop drops the error and the file stays
PDropFail ==
    /\ pc = "drop"
    /\ Exists(output.tmp_filename)
    /\ output' = [output EXCEPT !.live = FALSE]
    /\ hist' = [hist EXCEPT
                  !.cleanups = @ \cup
                      {[file |-> idx, after |-> ret, removed |-> FALSE,
                        kept |-> TRUE]}]
    /\ IF ret = "Fail"
       THEN LeaveAfterDrop
       ELSE /\ pc' = "rm"
            /\ UNCHANGED <<reader, left, outcome, exit>>
    /\ UNCHANGED <<filenames, flags, margs, cons, fs, idx, schema, ret>>

\* main.rs 259, 267: no --rm
PNoRm ==
    /\ pc = "rm"
    /\ ~flags.rm
    /\ Return("Commit")
    /\ UNCHANGED <<filenames, flags, margs, cons, fs, idx, schema, output,
                   ret, hist>>

\* main.rs 259-260: --rm, remove_file(filename) succeeds
PRm ==
    /\ pc = "rm"
    /\ flags.rm
    /\ fs' = RemoveFile(fs, cur)
    /\ hist' = [hist EXCEPT !.rmInputs = @ \cup {idx}]
    /\ Return("Commit")
    /\ UNCHANGED <<filenames, flags, margs, cons, idx, schema, output, ret>>

\* remove_file(filename)? : a failed removal of the input ends the run
PRmFailMutFatal ==
    /\ pc = "rm"
    /\ flags.rm
    /\ hist' = [hist EXCEPT !.rmFailed = @ \cup {idx}]
    /\ Return("Fail")
    /\ UNCHANGED <<filenames, flags, margs, cons, fs, idx, schema, output,
                   ret>>

\* main.rs 260-265: --rm, remove_file(filename) fails, which is only logged
PRmFail ==
    /\ pc = "rm"
    /\ flags.rm
    /\ hist' = [hist EXCEPT !.rmFailed = @ \cup {idx}]
    /\ Return("Commit")
    /\ UNCHANGED <<filenames, flags, margs, cons, fs, idx, schema, output,
                   ret>>

\* main.rs 261-264: --rm, remove_file(filename) fails and the eprintln! that
\* logs it cannot write to stderr and panics
PRmFailPanic ==
    /\ pc = "rm"
    /\ flags.rm
    /\ hist' = [hist EXCEPT !.rmFailed = @ \cup {idx}, !.failAt = "stderr"]
    /\ Abort("Commit")
    /\ UNCHANGED <<filenames, flags, margs, cons, fs, idx, schema, output,
                   ret>>

\* the paths another process creates or removes files at during a run: the
\* final and temp paths of the listed inputs
ExtPaths ==
    {FinalName(n) : n \in Listed(filenames) \cap CsvNames}
        \cup {TempName(n) : n \in Listed(filenames) \cap CsvNames}

\* another process creates a file between two steps of the program
ExtCreate ==
    /\ pc # "done"
    /\ hist.ext < MaxExt
    /\ \E p \in ExtPaths :
          /\ ~Exists(p)
          /\ fs' = [fs EXCEPT ![p] = ExtFile]
    /\ hist' = [hist EXCEPT !.ext = @ + 1]
    /\ UNCHANGED <<filenames, flags, margs, cons, idx, pc, reader, schema,
                   output, left, ret, outcome, exit>>

\* another process removes a file between two steps of the program
ExtRemove ==
    /\ pc # "done"
    /\ hist.ext < MaxExt
    /\ \E p \in ExtPaths :
          /\ IsFile(p)
          /\ fs' = RemoveFile(fs, p)
    /\ hist' = [hist EXCEPT !.ext = @ + 1]
    /\ UNCHANGED <<filenames, flags, margs, cons, idx, pc, reader, schema,
                   output, left, ret, outcome, exit>>

\* main.rs 270-285: the program is run again over the same list and the
\* same directives, with any flags, in the directory the run before left
MainRerun ==
    /\ pc = "done"
    /\ hist.run < MaxLaunches
    /\ flags' \in [print_schema : BOOLEAN, rm : BOOLEAN]
    /\ cons' = NoResult
    /\ idx' = 0
    /\ pc' = "start"
    /\ reader' = "none"
    /\ schema' = SchemaPending
    /\ output' = NoOutput
    /\ left' = 0
    /\ ret' = "none"
    /\ outcome' = [i \in 1..Len(filenames) |-> "none"]
    /\ exit' = "running"
    /\ margs' = hist.argv
    /\ hist' = [NoHist EXCEPT !.run = hist.run + 1, !.prev = outcome,
                              !.fsAtLaunch = fs, !.argv = hist.argv]
    /\ UNCHANGED <<filenames, fs>>

\* the parts of the model a run of main leaves alone
OthersM == UNCHANGED <<varsC, varsS, varsR>>

Next ==
    \/ MainConsolidate /\ OthersM
    \/ MainEnd /\ OthersM
    \/ MainCall /\ OthersM
    \/ PNotFile /\ OthersM
    \/ PNotFilePanic /\ OthersM
    \/ PNamePanic /\ OthersM
    \/ POpen /\ OthersM
    \/ POpenFail /\ OthersM
    \/ PInfer /\ OthersM
    \/ PInferFail /\ OthersM
    \/ PRewrite /\ OthersM
    \/ PPrintFail /\ OthersM
    \/ PPrintPanic /\ OthersM
    \/ PSuffixSkip /\ OthersM
    \/ PSuffixSkipPanic /\ OthersM
    \/ PFinalExists /\ OthersM
    \/ PFinalExistsPanic /\ OthersM
    \/ PTmpExists /\ OthersM
    \/ PTmpExistsPanic /\ OthersM
    \/ PFinalAbsent /\ OthersM
    \/ PChecked /\ OthersM
    \/ PCreate /\ OthersM
    \/ PCreateFail /\ OthersM
    \/ PBuild /\ OthersM
    \/ PTtyPanic /\ OthersM
    \/ PReadBatch /\ OthersM
    \/ PWrite /\ OthersM
    \/ PClose /\ OthersM
    \/ PSinkFail /\ OthersM
    \/ PSync /\ OthersM
    \/ PRename /\ OthersM
    \/ PDrop /\ OthersM
    \/ PDropFail /\ OthersM
    \/ PNoRm /\ OthersM
    \/ PRm /\ OthersM
    \/ PRmFail /\ OthersM
    \/ PRmFailPanic /\ OthersM

-----------------------------------------------------------------------------
(* Specifications *)

Init == InitM /\ IdleC /\ IdleS /\ IdleR

Spec == Init /\ [][Next]_vars

\* runs of the program one after the other
NextRerun ==
    \/ MainConsolidate /\ OthersM
    \/ MainEnd /\ OthersM
    \/ MainCall /\ OthersM
    \/ PNotFile /\ OthersM
    \/ PNotFilePanic /\ OthersM
    \/ PNamePanic /\ OthersM
    \/ POpen /\ OthersM
    \/ POpenFail /\ OthersM
    \/ PInfer /\ OthersM
    \/ PInferFail /\ OthersM
    \/ PRewrite /\ OthersM
    \/ PPrintFail /\ OthersM
    \/ PPrintPanic /\ OthersM
    \/ PSuffixSkip /\ OthersM
    \/ PSuffixSkipPanic /\ OthersM
    \/ PFinalExists /\ OthersM
    \/ PFinalExistsPanic /\ OthersM
    \/ PTmpExists /\ OthersM
    \/ PTmpExistsPanic /\ OthersM
    \/ PFinalAbsent /\ OthersM
    \/ PChecked /\ OthersM
    \/ PCreate /\ OthersM
    \/ PCreateFail /\ OthersM
    \/ PBuild /\ OthersM
    \/ PTtyPanic /\ OthersM
    \/ PReadBatch /\ OthersM
    \/ PWrite /\ OthersM
    \/ PClose /\ OthersM
    \/ PSinkFail /\ OthersM
    \/ PSync /\ OthersM
    \/ PRename /\ OthersM
    \/ PDrop /\ OthersM
    \/ PDropFail /\ OthersM
    \/ PNoRm /\ OthersM
    \/ PRm /\ OthersM
    \/ PRmFail /\ OthersM
    \/ PRmFailPanic /\ OthersM
    \/ MainRerun /\ OthersM

SpecRerun == Init /\ [][NextRerun]_vars

\* a run of the program over one file with other processes at work in the
\* directory
InitRace ==
    /\ InitM
    /\ Len(filenames) = 1
    /\ margs = ValidArgs
    /\ IdleC /\ IdleS /\ IdleR

NextRace ==
    \/ MainConsolidate /\ OthersM
    \/ MainEnd /\ OthersM
    \/ MainCall /\ OthersM
    \/ PNotFile /\ OthersM
    \/ PNotFilePanic /\ OthersM
    \/ PNamePanic /\ OthersM
    \/ POpen /\ OthersM
    \/ POpenFail /\ OthersM
    \/ PInfer /\ OthersM
    \/ PInferFail /\ OthersM
    \/ PRewrite /\ OthersM
    \/ PPrintFail /\ OthersM
    \/ PPrintPanic /\ OthersM
    \/ PSuffixSkip /\ OthersM
    \/ PSuffixSkipPanic /\ OthersM
    \/ PFinalExists /\ OthersM
    \/ PFinalExistsPanic /\ OthersM
    \/ PTmpExists /\ OthersM
    \/ PTmpExistsPanic /\ OthersM
    \/ PFinalAbsent /\ OthersM
    \/ PChecked /\ OthersM
    \/ PCreate /\ OthersM
    \/ PCreateFail /\ OthersM
    \/ PBuild /\ OthersM
    \/ PTtyPanic /\ OthersM
    \/ PReadBatch /\ OthersM
    \/ PWrite /\ OthersM
    \/ PClose /\ OthersM
    \/ PSinkFail /\ OthersM
    \/ PSync /\ OthersM
    \/ PRename /\ OthersM
    \/ PDrop /\ OthersM
    \/ PDropFail /\ OthersM
    \/ PNoRm /\ OthersM
    \/ PRm /\ OthersM
    \/ PRmFail /\ OthersM
    \/ PRmFailPanic /\ OthersM
    \/ ExtCreate /\ OthersM
    \/ ExtRemove /\ OthersM

SpecRace == InitRace /\ [][NextRace]_vars

NextC == Consolidate /\ UNCHANGED <<varsS, varsR, varsM>>

InitConsolidate == InitC /\ IdleS /\ IdleR /\ IdleM

SpecConsolidate == InitConsolidate /\ [][NextC]_vars

NextS == ApplyOverrides /\ UNCHANGED <<varsC, varsR, varsM>>

InitSchema == InitS /\ IdleC /\ IdleR /\ IdleM

SpecSchema == InitSchema /\ [][NextS]_vars

NextR ==
    \/ ReadSome /\ UNCHANGED <<varsC, varsS, varsM>>
    \/ DoRewind /\ UNCHANGED <<varsC, varsS, varsM>>

InitReader == InitR /\ IdleC /\ IdleS /\ IdleM

SpecReader == InitReader /\ [][NextR]_vars

-----------------------------------------------------------------------------
(* Properties of consolidate_types (checked under SpecConsolidate) *)

\* the call has returned
Consolidated == cres # NoResult

\* the non-wildcard names of a list
NamesOf(cols) == {cols[i] : i \in 1..Len(cols)} \ {"*", "__all__"}

\* a list holds one of the two wildcard spellings
WildIn(cols) == \E i \in 1..Len(cols) : cols[i] \in {"*", "__all__"}

\* a non-wildcard name occurs at two places of the list
RepeatsIn(cols, n) ==
    \E i, j \in 1..Len(cols) : i < j /\ cols[i] = n /\ cols[j] = n

\* no non-wildcard name is in two different lists
DisjointAcross(a) ==
    \A k1, k2 \in 1..4 :
        k1 < k2 => NamesOf(a[ListNames[k1]]) \cap NamesOf(a[ListNames[k2]]) = {}

AllNames(a) ==
    NamesOf(a.i32) \cup NamesOf(a.i64) \cup NamesOf(a.f32) \cup NamesOf(a.f64)

\* each listed name mapped to the type of the list that names it
ExpectedMap(a) ==
    [n \in AllNames(a) |->
        IF n \in NamesOf(a.i32) THEN "Int32"
        ELSE IF n \in NamesOf(a.i64) THEN "Int64"
        ELSE IF n \in NamesOf(a.f32) THEN "Float32"
        ELSE "Float64"]

\* C6 as stated: whenever the non-wildcard names are disjoint across the four
\* lists, consolidate_types succeeds and the override map holds exactly the
\* listed names, each with the type of its list.
C6_Original ==
    (Consolidated /\ DisjointAcross(cin))
        => (cres.ok /\ cres.overrides = ExpectedMap(cin))

\* C6 amended: the same, provided also that no name is repeated inside the
\* i64, f32 or f64 list and that no numeric kind has a wildcard in both of
\* its lists.
C6_Precondition ==
    /\ DisjointAcross(cin)
    /\ \A n \in ColNames :
          ~RepeatsIn(cin.i64, n) /\ ~RepeatsIn(cin.f32, n) /\ ~RepeatsIn(cin.f64, n)
    /\ ~(WildIn(cin.i32) /\ WildIn(cin.i64))
    /\ ~(WildIn(cin.f32) /\ WildIn(cin.f64))

C6_DisjointNamesSucceed ==
    (Consolidated /\ C6_Precondition)
        => (cres.ok /\ cres.overrides = ExpectedMap(cin))

\* C6 witness: a successful consolidation of disjoint names, one in an integer
\* list and one in the f32 list, next to a wildcard.
C6_Witness ==
    /\ Consolidated /\ C6_Precondition /\ cres.ok
    /\ NamesOf(cin.i32) \cup NamesOf(cin.i64) # {}
    /\ NamesOf(cin.f32) # {}
    /\ WildIn(cin.f64)
    /\ Cardinality(DOMAIN cres.overrides) = 2

\* C7: when both integer lists hold a wildcard (in either spelling), or both
\* float lists do, consolidate_types fails with a conflict of the defaults,
\* whatever else the four lists hold.
C7_BothWildcardsFail ==
    Consolidated =>
        /\ (WildIn(cin.i32) /\ WildIn(cin.i64))
              => (~cres.ok /\ cres.err = "int_default")
        /\ (WildIn(cin.f32) /\ WildIn(cin.f64))
              => (~cres.ok /\ cres.err \in {"int_default", "float_default"})

\* C7 witness: the two float lists hold the two different spellings, next to
\* a real column name, and the call failed on the float defaults.
C7_Witness ==
    /\ Consolidated
    /\ Contains(cin.f32, "__all__") /\ Contains(cin.f64, "*")
    /\ AllNames(cin) # {}
    /\ cres.err = "float_default"

\* C8: a name listed in both the i32 and the i64 list makes consolidate_types
\* fail; a name listed twice in the i32 list and in no other list is no error
\* (any failure then has another cause) and gets the single entry Int32.
C8_CrossListConflictOnly ==
    Consolidated =>
        /\ (NamesOf(cin.i32) \cap NamesOf(cin.i64) # {}) => ~cres.ok
        /\ \A n \in ColNames :
              (/\ RepeatsIn(cin.i32, n)
               /\ n \notin NamesOf(cin.i64) \cup NamesOf(cin.f32) \cup NamesOf(cin.f64))
              => /\ cres.ok => (n \in DOMAIN cres.overrides /\ cres.overrides[n] = "Int32")
                 /\ ~cres.ok =>
                       \/ cres.err \in {"int_default", "float_default"}
                       \/ (cres.err = "dup" /\ cres.col # n)
                 /\ (cin.i64 = <<>> /\ cin.f32 = <<>> /\ cin.f64 = <<>>) => cres.ok

\* C8 witness: the i32 list names one column twice, the call succeeded with
\* one entry for it; and (in another run) a name in both integer lists failed.
C8_WitnessRepeat ==
    /\ Consolidated /\ cres.ok
    /\ RepeatsIn(cin.i32, "a")
    /\ DOMAIN cres.overrides = {"a"}
    /\ cres.overrides["a"] = "Int32"

C8_WitnessConflict ==
    /\ Consolidated /\ ~cres.ok /\ cres.err = "dup" /\ cres.col = "a"
    /\ "a" \in NamesOf(cin.i32) \cap NamesOf(cin.i64)

\* C18: when consolidate_types succeeds, no wildcard spelling is a key of the
\* override map, the default integer type is Int32 exactly when the i32 list
\* holds a wildcard (Int64 otherwise) and the default float type is Float64
\* exactly when the f64 list holds a wildcard (Float32 otherwise).
C18_DefaultsFollowWildcards ==
    (Consolidated /\ cres.ok) =>
        /\ DOMAIN cres.overrides \cap {"*", "__all__"} = {}
        /\ cres.default_int_type = IF WildIn(cin.i32) THEN "Int32" ELSE "Int64"
        /\ cres.default_float_type = IF WildIn(cin.f64) THEN "Float64" ELSE "Float32"

\* C18 witness: a successful call with "__all__" in the i32 list, "*" in the
\* f64 list and a real column, giving Int32 and Float64 as defaults.
C18_Witness ==
    /\ Consolidated /\ cres.ok
    /\ Contains(cin.i32, "__all__") /\ Contains(cin.f64, "*")
    /\ DOMAIN cres.overrides = {"a"}
    /\ cres.default_int_type = "Int32"
    /\ cres.default_float_type = "Float64"

\* a non-wildcard name of the k-th list that is already a key when the scan
\* meets it: it is in a list scanned before, or at an earlier place of its list
C19_Collides(a, k) ==
    \E j \in 1..Len(a[ListNames[k]]) :
        LET n == a[ListNames[k]][j]
        IN /\ n \notin {"*", "__all__"}
           /\ \/ \E k0 \in 1..(k - 1) : n \in NamesOf(a[ListNames[k0]])
              \/ \E j0 \in 1..(j - 1) : a[ListNames[k]][j0] = n

\* C19: consolidate_types fails exactly when both integer lists hold a
\* wildcard, or both float lists do, or a non-wildcard name met in the i64,
\* f32 or f64 list is already a key of the override map (a repeat inside one
\* of these lists included); in every other case it succeeds.
C19_FailsExactlyOnConflict ==
    Consolidated =>
        (~cres.ok <=>
            \/ WildIn(cin.i32) /\ WildIn(cin.i64)
            \/ WildIn(cin.f32) /\ WildIn(cin.f64)
            \/ \E k \in 2..4 : C19_Collides(cin, k))

\* C19 witness: the f64 list names one column twice, nothing else is listed,
\* and the call failed naming that column.
C19_Witness ==
    /\ Consolidated /\ ~cres.ok
    /\ cin = [i32 |-> <<>>, i64 |-> <<>>, f32 |-> <<>>, f64 |-> <<"b", "b">>]
    /\ cres.err = "dup" /\ cres.col = "b"


-----------------------------------------------------------------------------
(* Properties of apply_schema_overrides (checked under SpecSchema) *)

\* the type C9 gives a field
C9_TypeOf(f) ==
    IF f.name \in DOMAIN sargs.overrides THEN sargs.overrides[f.name]
    ELSE IF f.data_type = "Int64" THEN sargs.default_int_type
    ELSE IF f.data_type = "Float64" THEN sargs.default_float_type
    ELSE f.data_type

\* C9: apply_schema_overrides keeps the number, order, names and nullability
\* of the fields; a field's type becomes the override's type when its name is
\* a key of the override map, else default_int for Int64, else default_float
\* for Float64, else it is unchanged. (The call has no failing path.)
C9_SchemaRewritten ==
    sres.done =>
        /\ Len(sres.fields) = Len(sargs.fields)
        /\ \A i \in 1..Len(sargs.fields) :
              /\ sres.fields[i].name = sargs.fields[i].name
              /\ sres.fields[i].nullable = sargs.fields[i].nullable
              /\ sres.fields[i].data_type = C9_TypeOf(sargs.fields[i])

\* C9 witness: a rewritten schema of two fields, the first an overridden
\* Int64 column that is not nullable, the second an unlisted Float64 column
\* that takes the default float type Float64.
C9_Witness ==
    /\ sres.done
    /\ Len(sargs.fields) = 2
    /\ sargs.fields[1] = [name |-> "a", data_type |-> "Int64", nullable |-> FALSE]
    /\ sargs.overrides = [n \in {"a"} |-> "Float32"]
    /\ sargs.fields[2] = [name |-> "b", data_type |-> "Float64", nullable |-> TRUE]
    /\ sargs.default_float_type = "Float64"
    /\ sres.fields[1].data_type = "Float32"
    /\ sres.fields[2].data_type = "Float64"

-----------------------------------------------------------------------------
(* Properties of RewindableReader (checked under SpecReader) *)

\* what reading a reader to the end of the stream yields: the bytes, and
\* whether the stream ended in an error
RECURSIVE ReadToEnd(_, _, _)
ReadToEnd(r, data, out) ==
    LET res == Read(r, 1, data)
    IN IF res.r.err THEN [bytes |-> out, end |-> "err"]
       ELSE IF res.out = <<>> THEN [bytes |-> out, end |-> "eof"]
       ELSE ReadToEnd(res.r, data, out \o res.out)

FreshRead == ReadToEnd(Open(rfile.name), rfile.data, <<>>)

\* C10: after N > 0 bytes were read, rewind() followed by reading to the end
\* of the stream yields the bytes (and the same end: end of stream or error)
\* that reading a freshly opened reader of the file to its end yields; and
\* at every moment after rewind() what was read is a prefix of that.
C10_RewindIsFreshOpen ==
    (rphase = "rewound" /\ rN > 0) =>
        /\ Len(rgot) <= Len(FreshRead.bytes)
        /\ rgot = SubSeq(FreshRead.bytes, 1, Len(rgot))
        /\ rend # "no" => (rgot = FreshRead.bytes /\ rend = FreshRead.end)

\* C10 witness: a compressed file of two members, rewound in the middle of a
\* run after an odd number of bytes, then read to the end of the stream.
C10_Witness ==
    /\ rphase = "rewound" /\ rN = 1 /\ rend = "eof"
    /\ rdr.variant = "Compressed"
    /\ rfile.data = <<"H", "2x", "1y", "T", "H", "1y", "T">>
    /\ rgot = <<"x", "x", "y", "y">>
    /\ LET one == Read(Open(rfile.name), 1, rfile.data)
       IN /\ one.r.pending = <<"x">> /\ one.r.buf = <<>>
          /\ Read(one.r, 2, rfile.data).out = <<"x">>

\* C10: a compressed file of one member that is longer than the decoder's
\* buffer: a read of two bytes on the fresh reader returns the one byte the
\* buffer held, and the rewound reader has come as far.
C10_WitnessShortRead ==
    /\ rphase = "rewound" /\ rN > 0 /\ rend = "no"
    /\ rdr.variant = "Compressed"
    /\ rfile.data = <<"H", "1y", "1y", "T">>
    /\ Read(Open(rfile.name), 2, rfile.data).out = <<"y">>
    /\ rgot = <<"y">>
    /\ rdr.buf = <<>>

\* the plain variant's case of C10
C10_WitnessPlain ==
    /\ rphase = "rewound" /\ rN = 3 /\ rend = "eof"
    /\ rdr.variant = "Plain"
    /\ rgot = <<"H", "2x", "T">>

-----------------------------------------------------------------------------
(* Properties of a run of main (checked under Spec) *)

\* process has returned for file i
Returned(i) == outcome[i] # "none"

\* the file at path p holds every row batch of its input, the writer was
\* closed on it and sync_all succeeded on it
Complete(p) == fs[p].rows = fs[p].want /\ fs[p].closed /\ fs[p].synced

\* file i reached the rename of flush_and_rename
Committed(i) ==
    \/ outcome[i] = "Commit"
    \/ i = idx /\ pc \in {"drop", "rm"} /\ ret = "Commit"

\* the cleanup of file i ran and its remove_file failed with the temp file
\* still there
CleanupFailed(i) ==
    \E c \in hist.cleanups : c.file = i /\ c.kept /\ c.after = "Fail"

\* C1: whatever step fails, a file the program made is either at the final
\* path of an input whose rename was executed, and then it holds every batch,
\* was closed and synced before the rename; or it is the temp file of the
\* current file, under the temp name, which is not its final name: the one
\* being written, or the one a failed cleanup left after the file failed.
\* The program never creates or writes a file under the final name.
C1_FinalOnlyByRename ==
    /\ hist.finalWrites = {}
    /\ \A p \in Paths :
          fs[p].by = "prog" =>
             \/ /\ fs[p].via = "rename"
                /\ Complete(p)
                /\ \E i \in 1..idx :
                      /\ HasCsvSuffix(filenames[i])
                      /\ p = FinalName(filenames[i])
                      /\ Committed(i)
             \/ /\ fs[p].via = "create"
                /\ \/ output.live /\ pc \in SinkFailPoints \cup {"drop"}
                   \/ ~output.live /\ outcome[idx] = "Fail"
                                   /\ CleanupFailed(idx)
                /\ ret # "Commit"
                /\ p = output.tmp_filename
                /\ p = TempName(cur)
                /\ p # FinalName(cur)

\* C1 witness: a run of two files in which the first was committed with two
\* row batches and the second failed after one batch was written.
C1_Witness ==
    /\ Len(filenames) = 2
    /\ outcome[1] = "Commit"
    /\ fs[FinalName(filenames[1])].via = "rename"
    /\ fs[FinalName(filenames[1])].rows = 2
    /\ idx = 2 /\ pc = "drop" /\ ret = "Fail"
    /\ fs[TempName(filenames[2])].rows = 1

\* C2 as stated: if a step fails after a row batch was written and before
\* flush_and_rename was called, then after the sink was dropped there is no
\* file at the final path and none at the temp path.
C2_FailedWriteLeavesNothing ==
    \A i \in 1..Len(filenames) :
        (/\ outcome[i] = "Fail"
         /\ hist.failAt \in {"stream", "write"}
         /\ hist.rowsAtFail >= 1)
        => /\ ~Exists(FinalName(filenames[i]))
           /\ ~Exists(TempName(filenames[i]))

\* C2 with the cleanup as the code has it: after such a failure and the drop
\* of the sink there is no file at the final path, and there is a file at
\* the temp path exactly when remove_file failed in Drop, which drops the
\* error.
C2_FailedWriteLeavesOnlyUnremoved ==
    \A i \in 1..Len(filenames) :
        (/\ outcome[i] = "Fail"
         /\ hist.failAt \in {"stream", "write"}
         /\ hist.rowsAtFail >= 1)
        => /\ ~Exists(FinalName(filenames[i]))
           /\ Exists(TempName(filenames[i])) <=> CleanupFailed(i)
           /\ \E c \in hist.cleanups : c.file = i /\ c.after = "Fail"

\* C2 witness: a write failed after one batch was written, the sink was
\* dropped and its cleanup removed the temp file.
C2_Witness ==
    /\ idx >= 1 /\ outcome[idx] = "Fail"
    /\ hist.failAt = "write" /\ hist.rowsAtFail = 1
    /\ [file |-> idx, after |-> "Fail", removed |-> TRUE, kept |-> FALSE]
          \in hist.cleanups
    /\ ~output.live

\* C2: a write failed after one batch was written and the cleanup could not
\* remove the temp file, which is left with that batch in it.
C2_WitnessKept ==
    /\ idx >= 1 /\ outcome[idx] = "Fail"
    /\ hist.failAt = "write" /\ hist.rowsAtFail = 1
    /\ CleanupFailed(idx)
    /\ fs[TempName(cur)].rows = 1

\* C3 as stated, for a run in which no step fails: a file whose final path
\* existed when process started ends in Skip, with no temp file created and
\* with the final file and the input as they were.
C3_ExistingFinalSkips ==
    \A i \in 1..Len(filenames) :
        (Returned(i) /\ i \in hist.finalAtStart /\ hist.failAt = "none")
        => /\ outcome[i] = "Skip"
           /\ i \notin hist.tmpCreated
           /\ i = idx => /\ fs[FinalName(cur)] = hist.fsAtStart[FinalName(cur)]
                         /\ fs[cur] = hist.fsAtStart[cur]

\* C3, the part the code keeps: such a file gets no temp file, and the final
\* file and the input stay as they were, however process ends.
C3_FrameOnly ==
    \A i \in 1..Len(filenames) :
        (Returned(i) /\ i \in hist.finalAtStart)
        => /\ i \notin hist.tmpCreated
           /\ i = idx => /\ fs[FinalName(cur)] = hist.fsAtStart[FinalName(cur)]
                         /\ fs[cur] = hist.fsAtStart[cur]

\* C4 as stated: the cleanup of the sink (remove_file of the temp path) is
\* never executed after a successful rename.
C4_NoCleanupAfterCommit ==
    \A c \in hist.cleanups : c.after # "Commit"

\* C5 as stated: a file that ends in Skip has had neither schema inference
\* nor schema rewriting run on it.
C5_GuardsBeforeInference ==
    \A i \in 1..Len(filenames) :
        outcome[i] = "Skip" => (i \notin hist.inferred /\ i \notin hist.rewritten)

\* C5, the part the code keeps: only the regular-file guard precedes
\* inference, and no Skip happens once the temp file was created.
C5_SkipBeforeSink ==
    \A i \in 1..Len(filenames) :
        outcome[i] = "Skip" =>
            /\ i \notin hist.tmpCreated
            /\ (i \notin hist.inferred) <=> (i \notin hist.rewritten)

-----------------------------------------------------------------------------
(* Properties of the loop of main and of the modes of process *)

\* file i was touched by process in some way the history records
Touched(i) ==
    \/ i \in hist.opened \/ i \in hist.inferred \/ i \in hist.rewritten
    \/ i \in hist.tmpCreated \/ i \in hist.rmInputs \/ i \in hist.rmFailed

\* the run ended with an error: main returned Err, or the program panicked
ErrorExit == exit \in {"err", "panic"}

\* C12 as stated: the files are processed one at a time in the order given:
\* every file before the current one has returned without Fail and no file after the
\* current one was touched. When the process of file k ends in Fail the run
\* is over with an error and no file after k is opened, inferred or written.
\* After a Skip the run goes on: a finished run has processed the file after
\* every skipped one, and a run of skips and successes only ends with success.
C12_FailStopsSkipContinues ==
    /\ \A i \in 1..Len(filenames) :
          /\ i < idx => (Returned(i) /\ outcome[i] # "Fail")
          /\ i > idx => (~Returned(i) /\ ~Touched(i))
          /\ outcome[i] = "Fail" => (pc = "done" /\ ErrorExit /\ idx = i)
          /\ (outcome[i] = "Skip" /\ pc = "done" /\ i < Len(filenames))
                => Returned(i + 1)
    /\ ErrorExit <=>
          \/ cons # NoResult /\ ~cons.ok
          \/ \E i \in 1..Len(filenames) : outcome[i] = "Fail"
    /\ (/\ pc = "done"
        /\ cons.ok
        /\ \A i \in 1..Len(filenames) : outcome[i] # "Fail")
          => (exit = "ok" /\ \A i \in 1..Len(filenames) : Returned(i))

\* the program panicked while process was at work on the current file: a
\* message could not be written to stderr or stdout, or the name of the file
\* is not UTF-8
Panicked ==
    /\ exit = "panic"
    /\ pc = "done"
    /\ idx >= 1
    /\ Returned(idx)
    /\ hist.failAt \in {"stderr", "stdout", "tty", "utf8"}

\* C12, what the code keeps: the files are processed one at a time in
\* the order given. When the process of file k ends in Fail, or the program
\* panics in it (a skip message, the file name or the schema cannot be
\* printed, or the name is not UTF-8), the run is over with an error and no
\* file after k is opened, inferred or written. After a Skip whose message
\* was printed the run goes on, and a run of skips and successes without a
\* panic ends with success.
C12_FailOrPanicStops ==
    /\ \A i \in 1..Len(filenames) :
          /\ i < idx => (Returned(i) /\ outcome[i] # "Fail")
          /\ i > idx => (~Returned(i) /\ ~Touched(i))
          /\ outcome[i] = "Fail" => (pc = "done" /\ ErrorExit /\ idx = i)
          /\ (outcome[i] = "Skip" /\ pc = "done" /\ i < Len(filenames))
                => (Returned(i + 1) \/ (Panicked /\ idx = i))
    /\ exit = "panic" => Panicked
    /\ exit = "err" <=>
          \/ cons # NoResult /\ ~cons.ok
          \/ \E i \in 1..Len(filenames) : outcome[i] = "Fail" /\ ~Panicked
    /\ (/\ pc = "done"
        /\ cons.ok
        /\ ~Panicked
        /\ \A i \in 1..Len(filenames) : outcome[i] # "Fail")
          => (exit = "ok" /\ \A i \in 1..Len(filenames) : Returned(i))

\* C12: the first of two files was skipped, the message of the skip could
\* not be written and the program panicked; the second file, a regular csv
\* file, was never looked at.
C12_WitnessPanic ==
    /\ Len(filenames) = 2
    /\ outcome = <<"Skip", "none">>
    /\ Panicked /\ hist.failAt = "stderr"
    /\ IsFile(filenames[2]) /\ filenames[2] \in CsvNames
    /\ 2 \notin hist.opened

\* C12 witness: the first of two regular files failed after its inference
\* ran; the run is over with an error and the second file was never opened.
C12_Witness ==
    /\ Len(filenames) = 2
    /\ outcome[1] = "Fail" /\ 1 \in hist.inferred
    /\ IsFile(filenames[2]) /\ HasCsvSuffix(filenames[2])
    /\ ~Returned(2) /\ 2 \notin hist.opened
    /\ pc = "done" /\ ErrorExit

\* C12 witness: a skipped first file is followed by a committed second one
\* and the run ends with success.
C12_WitnessSkip ==
    /\ Len(filenames) = 2
    /\ outcome[1] = "Skip" /\ outcome[2] = "Commit"
    /\ pc = "done" /\ exit = "ok"

\* C13 as stated: an input is removed by the program only under --rm and
\* only after the rename of its conversion was executed: the final path of a
\* removed input holds the complete file put there by the rename. A file that
\* ended in Skip, PrintOnly or Fail was not removed, and its input path is as
\* it was when its process started. A failed removal still ends in Commit
\* and does not make the run fail.
C13_RmOnlyAfterCommit ==
    /\ hist.rmInputs \cup hist.rmFailed # {} => flags.rm
    /\ \A i \in hist.rmInputs :
          /\ outcome[i] = "Commit"
          /\ fs[FinalName(filenames[i])].via = "rename"
          /\ fs[FinalName(filenames[i])].by = "prog"
          /\ Complete(FinalName(filenames[i]))
    /\ \A i \in 1..Len(filenames) :
          outcome[i] \in {"Skip", "PrintOnly", "Fail"} =>
             /\ i \notin hist.rmInputs
             /\ i = idx => fs[cur] = hist.fsAtStart[cur]
    /\ \A i \in hist.rmFailed :
          /\ outcome[i] = "Commit"
          /\ (pc = "done" /\ idx = i) => exit = "ok"

\* C13, what the code keeps: as stated, except that a failed removal
\* is fatal when its message cannot be written to stderr: the program panics
\* after the commit, with the input and the final file both in place.
C13_RmOnlyAfterCommitLogged ==
    /\ hist.rmInputs \cup hist.rmFailed # {} => flags.rm
    /\ \A i \in hist.rmInputs :
          /\ outcome[i] = "Commit"
          /\ fs[FinalName(filenames[i])].via = "rename"
          /\ fs[FinalName(filenames[i])].by = "prog"
          /\ Complete(FinalName(filenames[i]))
    /\ \A i \in 1..Len(filenames) :
          outcome[i] \in {"Skip", "PrintOnly", "Fail"} =>
             /\ i \notin hist.rmInputs
             /\ i = idx => fs[cur] = hist.fsAtStart[cur]
    /\ \A i \in hist.rmFailed :
          /\ outcome[i] = "Commit"
          /\ (pc = "done" /\ idx = i) =>
                \/ exit = "ok"
                \/ /\ Panicked /\ hist.failAt = "stderr"
                   /\ IsFile(cur)
                   /\ fs[FinalName(cur)].via = "rename"

\* C13: the removal of a committed input failed and its message could not be
\* written: the program panicked with the input and the final file in place.
C13_WitnessLogPanic ==
    /\ idx >= 1
    /\ idx \in hist.rmFailed
    /\ Panicked
    /\ IsFile(cur)
    /\ fs[FinalName(cur)].via = "rename"

\* C13 witness: under --rm the current input was committed and removed.
C13_Witness ==
    /\ flags.rm
    /\ idx \in hist.rmInputs
    /\ hist.fsAtStart[cur].kind = "file"
    /\ ~Exists(cur)
    /\ fs[FinalName(cur)].via = "rename"

\* C13 witness: the removal of a committed input failed, the input is still
\* there and the run ended with success.
C13_WitnessRmFailed ==
    /\ idx \in hist.rmFailed
    /\ IsFile(cur)
    /\ pc = "done" /\ exit = "ok"

\* C14: when consolidate_types returns an error the run is over with an
\* error before the first call of process: no file was opened, inferred,
\* given a temp file or removed, and the directory is as it was at the start.
\* A call of process happens only after a successful consolidation.
C14_ConflictBeforeAnyFile ==
    /\ (cons # NoResult /\ ~cons.ok) =>
          /\ pc = "done" /\ exit = "err" /\ idx = 0
          /\ \A i \in 1..Len(filenames) : ~Returned(i) /\ ~Touched(i)
          /\ fs = hist.fsAtLaunch
          /\ \A p \in Paths : fs[p].by # "prog"
    /\ idx >= 1 => (cons # NoResult /\ cons.ok)

\* C14 witness: contradictory directives with a convertible file listed.
C14_Witness ==
    /\ cons # NoResult /\ ~cons.ok
    /\ Len(filenames) >= 1
    /\ IsFile(filenames[1]) /\ HasCsvSuffix(filenames[1])
    /\ ~Exists(FinalName(filenames[1])) /\ ~Exists(TempName(filenames[1]))
    /\ pc = "done"

\* C15 as stated: in print-schema mode no temp file and no final file is
\* created and no input is removed, --rm or not, and a file whose schema was
\* rewritten ends in PrintOnly.
C15_PrintSchemaTouchesNothing ==
    flags.print_schema =>
        /\ hist.tmpCreated = {}
        /\ hist.rmInputs = {} /\ hist.rmFailed = {}
        /\ fs = hist.fsAtLaunch
        /\ \A p \in Paths : fs[p].by # "prog"
        /\ \A i \in 1..Len(filenames) :
              /\ i \in hist.rewritten <=> outcome[i] = "PrintOnly"
              /\ outcome[i] # "Commit"

\* C15 with the print as the code has it: in print-schema mode the directory
\* never changes: no temp file and no final file is created and no input is
\* removed, --rm or not. A file whose schema was rewritten ends in PrintOnly
\* unless printing the schema fails (to_string_pretty returns Err, or
\* println! cannot write to stdout), which ends the file in Fail and the run
\* with an error. No file ends in Commit.
C15_PrintSchemaFrame ==
    flags.print_schema =>
        /\ hist.tmpCreated = {}
        /\ hist.rmInputs = {} /\ hist.rmFailed = {}
        /\ fs = hist.fsAtLaunch
        /\ \A p \in Paths : fs[p].by # "prog"
        /\ \A i \in 1..Len(filenames) :
              /\ outcome[i] = "PrintOnly" => i \in hist.rewritten
              /\ i \in hist.rewritten =>
                    \/ outcome[i] = "PrintOnly"
                    \/ /\ outcome[i] = "Fail"
                       /\ hist.failAt \in {"print", "stdout"}
                       /\ pc = "done" /\ ErrorExit
              /\ outcome[i] # "Commit"

\* C15 witness: print-schema with --rm on a file that a conversion run would
\* convert: it ended in PrintOnly and is still there.
C15_Witness ==
    /\ flags.print_schema /\ flags.rm
    /\ idx >= 1
    /\ outcome[idx] = "PrintOnly"
    /\ HasCsvSuffix(cur) /\ IsFile(cur)
    /\ ~Exists(FinalName(cur)) /\ ~Exists(TempName(cur))

\* C15: the print of the schema of the second file failed; nothing was
\* created or removed.
C15_WitnessPrintFailed ==
    /\ flags.print_schema
    /\ idx = 2
    /\ outcome = <<"PrintOnly", "Fail">>
    /\ hist.failAt = "stdout"

\* a file the program created and has not renamed
Staging(p) == fs[p].by = "prog" /\ fs[p].via = "create"

\* C20 as stated: a file the program created and did not rename exists only
\* while the process that created it has not returned: it is the temp file
\* of the current file, whose TempFile is alive. So at most one exists at
\* any time and none exists once process returned, whatever the outcome.
C20_TempBoundedToInvocation ==
    /\ Cardinality({p \in Paths : Staging(p)}) <= 1
    /\ \A p \in Paths :
          Staging(p) =>
             /\ idx >= 1 /\ ~Returned(idx)
             /\ idx \in hist.tmpCreated
             /\ output.live
             /\ p = output.tmp_filename
             /\ p = TempName(cur)

\* C20 with the cleanup as the code has it: at most one file the program
\* created and did not rename exists at any time, and it is the temp file of
\* the current file. It exists while the process that created it has not
\* returned; it is there after the return only if that process ended in
\* Fail and remove_file failed in Drop, and then the run is over.
C20_TempOutlivesOnlyFailedCleanup ==
    /\ Cardinality({p \in Paths : Staging(p)}) <= 1
    /\ \A p \in Paths :
          Staging(p) =>
             /\ idx >= 1
             /\ idx \in hist.tmpCreated
             /\ p = output.tmp_filename
             /\ p = TempName(cur)
             /\ \/ ~Returned(idx) /\ output.live
                \/ /\ outcome[idx] = "Fail"
                   /\ CleanupFailed(idx)
                   /\ ~output.live
                   /\ pc = "done"

\* C20 witness: the first file got a temp file and has returned, the second
\* file has its temp file now, and that is the only one.
C20_Witness ==
    /\ idx = 2
    /\ hist.tmpCreated = {1, 2}
    /\ Returned(1)
    /\ TempName(filenames[1]) # TempName(filenames[2])
    /\ Staging(TempName(filenames[2]))
    /\ ~Staging(TempName(filenames[1]))

\* C20 witness: a file that failed after its temp file was written to has
\* returned and no staging file is left.
C20_WitnessFail ==
    /\ idx >= 1
    /\ outcome[idx] = "Fail"
    /\ idx \in hist.tmpCreated
    /\ hist.rowsAtFail >= 1
    /\ \A p \in Paths : ~Staging(p)

\* C20: the temp file of a failed file is still there after the return.
C20_WitnessKept ==
    /\ idx >= 1
    /\ outcome[idx] = "Fail"
    /\ CleanupFailed(idx)
    /\ Staging(TempName(cur))

-----------------------------------------------------------------------------
(* Properties of a second run and of runs with other processes at work *)

\* file i was committed by the run before and its output is in place at the
\* start of this run, which is a conversion run
C11_SecondRunOf(i) ==
    /\ hist.run = 2
    /\ ~flags.print_schema
    /\ hist.prev[i] = "Commit"
    /\ hist.fsAtLaunch[FinalName(filenames[i])].via = "rename"

\* C11 as stated: a file the first run committed, whose output is in place,
\* ends in Skip on the second run, gets no temp file, and its first output
\* is unchanged.
C11_SecondRunSkips ==
    \A i \in 1..Len(filenames) :
        (C11_SecondRunOf(i) /\ Returned(i)) =>
            /\ outcome[i] = "Skip"
            /\ i \notin hist.tmpCreated
            /\ fs[FinalName(filenames[i])]
                  = hist.fsAtLaunch[FinalName(filenames[i])]

\* C11, the part the code keeps: on the second run such a file ends in Skip
\* unless opening it or inferring its schema fails, which ends it in Fail;
\* either way no temp file is created and the first output is unchanged.
C11_SkipUnlessReadFails ==
    \A i \in 1..Len(filenames) :
        (C11_SecondRunOf(i) /\ Returned(i)) =>
            /\ \/ outcome[i] = "Skip"
               \/ outcome[i] = "Fail" /\ hist.failAt \in {"open", "infer"}
            /\ i \notin hist.tmpCreated
            /\ fs[FinalName(filenames[i])]
                  = hist.fsAtLaunch[FinalName(filenames[i])]

\* C11: the second run skipped a file the first run committed.
C11_Reached ==
    /\ Len(filenames) >= 1
    /\ C11_SecondRunOf(1)
    /\ IsFile(filenames[1])
    /\ 1 \in hist.inferred
    /\ outcome[1] = "Skip"

\* C16 as stated: with other processes at work the rename of the commit
\* never replaces a file that is at the final path.
C16_CommitNeverOverwrites ==
    hist.overwrote = {}

\* C16, the part the code keeps: a file that was at the final path before
\* the run is never replaced by the program; what the rename replaces was
\* put there by another process after the check of main.rs 226.
C16_OverwritesOnlyLateArrivals ==
    \A o \in hist.overwrote : o.replaced = "ext"

\* C16: the rename replaced a file of another process.
C16_Reached ==
    /\ hist.overwrote # {}
    /\ outcome = <<"Commit">>
    /\ fs[FinalName(cur)].by = "prog"

\* C17: when create_new runs with a file at the temp path, which after the
\* negative check of main.rs 233 only another process can have put there,
\* the step of the program is the failure of the exclusive create: the file
\* ends in Fail and not in Skip, the run is over with an error and nothing
\* is tried again, no TempFile exists, so no cleanup runs, and the directory
\* is left as it was: the file of the other process is neither written to
\* nor removed.
C17_CollisionIsFatal ==
    [][(pc = "create" /\ Exists(TempName(cur)) /\ pc' # "create") =>
          /\ fs[TempName(cur)].by = "ext"
          /\ outcome'[idx] = "Fail"
          /\ pc' = "done" /\ exit' = "err" /\ idx' = idx
          /\ fs' = fs
          /\ ~output'.live
          /\ hist'.tmpCreated = hist.tmpCreated
          /\ hist'.cleanups = hist.cleanups
          /\ hist'.foreign = hist.foreign]_vars

\* C17 witness: the temp path was free when process started and at the
\* check; another process took it before create_new, which failed; the file
\* ended in Fail and the file of the other process is still there, as it was.
C17_Witness ==
    /\ idx = 1
    /\ hist.failAt = "create"
    /\ hist.fsAtStart[TempName(cur)].kind = "none"
    /\ outcome[1] = "Fail" /\ pc = "done" /\ exit = "err"
    /\ 1 \notin hist.tmpCreated
    /\ fs[TempName(cur)] = ExtFile

====
